---- MODULE Spec2Model ----
(***************************************************************************)
(* Model of app.py, the Azure Key Vault secrets manager: main, the session *)
(* checks, the confirmation prompt, push_secrets and pull_secrets.         *)
(*                                                                         *)
(* Python strings are sequences of one-character strings, so that strip,   *)
(* lower, split and fnmatch are computed character by character.           *)
(* JSON values carry their kind in the field t: a dict is                  *)
(* [t |-> "dict", d |-> f] with f a function on the keys that are present, *)
(* a string is [t |-> "str", s |-> chars], null is [t |-> "null"] and a    *)
(* tags mapping is [t |-> "map", m |-> <<pairs>>] (a Python dict keeps its *)
(* insertion order). None is [t |-> "none"].                               *)
(* Every subprocess call is one step whose exit status is chosen by the    *)
(* environment; the call and its status are appended to calls. click.echo  *)
(* output is not modelled.                                                 *)
(***************************************************************************)
EXTENDS Naturals, Sequences, FiniteSets

VARIABLES
    pc,              \* position of the run in main
    outcome,         \* how the process ended: "running", "success", "cancelled", "fatal", "crash"
    args,            \* the parsed command line (argparse namespace)
    env,             \* os.environ entries read by main
    subscription_id, \* main's local, line 135
    vaultname,       \* main's local, line 136
    line,            \* the line typed at the confirmation prompt
    prompts,         \* number of times input() was called
    vault,           \* the remote vault: the secrets in the order the remote lists them
    file,            \* the transfer file on disk
    file0,           \* the transfer file as it was when the run started
    file_read,       \* whether the run opened the transfer file for reading
    calls,           \* the subprocess calls of this run, each with its exit status
    secrets,         \* push_secrets: the loaded list; pull_secrets: the accumulated list
    secrets_ids,     \* pull_secrets: the identifiers returned by the listing call
    i,               \* index of the next element of the running for loop
    first_run        \* the pull run that preceded this run, if this is a push-back

vars == <<pc, outcome, args, env, subscription_id, vaultname, line, prompts, vault,
          file, file0, file_read, calls, secrets, secrets_ids, i, first_run>>

-----------------------------------------------------------------------------
(* Bounds *)

MaxFile == 2
MaxVault == 2
MaxLine == 3

-----------------------------------------------------------------------------
(* Values *)

None == [t |-> "none"]
Str(s) == [t |-> "str", s |-> s]
JNull == [t |-> "null"]
JMap(m) == [t |-> "map", m |-> m]
JDict(d) == [t |-> "dict", d |-> d]

\* Python truthiness of an optional string: None and "" are false.
Truthy(x) == x.t = "str" /\ x.s # <<>>

\* Python's  a or b
OrElse(a, b) == IF Truthy(a) THEN a ELSE b

SeqsUpTo(S, n) == UNION {[1..k -> S] : k \in 0..n}

Range(s) == {s[k] : k \in DOMAIN s}

\* Exit status of the process for each way it can end: exit(1) and an
\* uncaught exception both give 1, exit(0) and returning from main give 0.
exit_status == IF outcome \in {"success", "cancelled"} THEN 0 ELSE 1

-----------------------------------------------------------------------------
(* Inputs the model draws from *)

db == <<"d", "b">>
tag_env_prod == << <<"e">>, <<"p">> >>
tag_env_dev == << <<"e">>, <<"d">> >>
tag_k_x == << <<"k">>, <<"x">> >>

\* Elements a transfer file handed to push may hold.
FileRecs ==
    { JDict([name |-> db, value |-> <<"s">>, tags |-> JMap(<<tag_env_prod, tag_k_x>>)]),
      JDict([name |-> <<"a">>, value |-> <<"s">>]),
      JDict([name |-> <<"a">>, value |-> <<"s">>, tags |-> JNull]),
      JDict([value |-> <<"s">>]),
      JDict([name |-> <<"a">>]),
      JDict([name |-> <<>>, value |-> <<"s">>]),
      JDict([name |-> <<"a">>, value |-> <<>>, tags |-> JMap(<<tag_env_dev>>)]),
      Str(<<"a">>) }

NoFile == [kind |-> "none"]
JsonFile(recs) == [kind |-> "json", recs |-> recs]

PushFiles == {NoFile} \cup {JsonFile(r) : r \in SeqsUpTo(FileRecs, MaxFile)}

\* Files that may already be on disk when a pull starts.
OldFiles == {NoFile, JsonFile(<<JDict([name |-> <<"a">>, value |-> <<"s">>])>>)}

\* Secrets the remote vault may hold; tags is a mapping or null (no tags).
VaultRecs ==
    { [name |-> db, value |-> <<"s">>, tags |-> JMap(<<tag_env_prod>>)],
      [name |-> <<"a">>, value |-> <<>>, tags |-> JNull],
      [name |-> <<"a", "b">>, value |-> <<"s">>, tags |-> JMap(<<tag_env_dev>>)],
      [name |-> <<"d", "a">>, value |-> <<"x">>, tags |-> JMap(<<tag_env_prod, tag_k_x>>)] }

\* A vault names each secret once.
Vaults == {v \in SeqsUpTo(VaultRecs, MaxVault) :
              \A j, k \in DOMAIN v : v[j].name = v[k].name => j = k}

\* --tags values: absent, well-formed key=value items, and an item without '='.
TagsOptions ==
    { None,
      [t |-> "list", l |-> << <<"e", "=", "p">> >>],
      [t |-> "list", l |-> << <<"e", "=", "p">>, <<"k", "=", "x">> >>],
      [t |-> "list", l |-> << <<"e">> >>] }

\* --name values: absent, empty, and glob patterns.
NameOptions ==
    { None, Str(<<>>), Str(<<"d", "*">>), Str(<<"?", "b">>), Str(<<"[", "!", "d", "]", "*">>) }

sub == Str(<<"s">>)
kv == Str(<<"v">>)

\* (--subscription, AZURE_SUBSCRIPTION_ID, --vaultname, AZURE_KEYVAULT_NAME)
Configs ==
    { <<sub, None, kv, None>>,
      <<None, sub, None, kv>>,
      <<None, None, kv, None>>,
      <<Str(<<>>), None, kv, None>>,
      <<sub, None, None, None>>,
      <<None, None, None, None>> }

Args(dir, c, tg, nm) ==
    [direction |-> dir, subscription |-> c[1], vaultname |-> c[3], tags |-> tg, name |-> nm]

Env(c) == [AZURE_SUBSCRIPTION_ID |-> c[2], AZURE_KEYVAULT_NAME |-> c[4]]

\* Lines typed at the prompt in a full run.
ShortLines == { <<"y">>, <<"Y">>, <<"n">>, <<>> }

LineChars == {"y", "Y", "n", "e", "s", " "}
AllLines == SeqsUpTo(LineChars, MaxLine)

-----------------------------------------------------------------------------
(* Initial state: a command line, an environment, a vault and a file.      *)
(* push never queries the vault's contents and pull never reads the file,  *)
(* so a push starts from every file and a pull from every vault.           *)

InitCommon ==
    /\ pc = "start"
    /\ outcome = "running"
    /\ subscription_id = None
    /\ vaultname = None
    /\ line = <<>>
    /\ prompts = 0
    /\ file0 = file
    /\ file_read = FALSE
    /\ calls = <<>>
    /\ secrets = <<>>
    /\ secrets_ids = <<>>
    /\ i = 1
    /\ first_run = None

Init ==
    /\ \E c \in Configs :
        \/ /\ args = Args("push", c, None, None)
           /\ env = Env(c)
           /\ vault = <<>>
           /\ file \in PushFiles
        \/ /\ \E tg \in TagsOptions, nm \in NameOptions : args = Args("pull", c, tg, nm)
           /\ env = Env(c)
           /\ vault \in Vaults
           /\ file \in OldFiles
    /\ InitCommon

-----------------------------------------------------------------------------
(* Process exit *)

\* exit(code) or an uncaught exception: the run stops where it is.
Exit(how) ==
    /\ pc' = "exit"
    /\ outcome' = how

Log(c) == calls' = Append(calls, c)

-----------------------------------------------------------------------------
(* main, lines 133-144: resolve the subscription and the vault name *)

\* Mutant: the subscription check of line 138 is dropped.
MissingVaultOnly(s, v) == ~Truthy(v)

\* Lines 138 and 142: either required setting is missing or empty.
MissingConfig(s, v) == ~Truthy(s) \/ ~Truthy(v)

ParseArgs ==
    /\ pc = "start"
    /\ subscription_id' = OrElse(args.subscription, env.AZURE_SUBSCRIPTION_ID)
    /\ vaultname' = OrElse(args.vaultname, env.AZURE_KEYVAULT_NAME)
    /\ IF MissingConfig(subscription_id', vaultname')
         THEN Exit("fatal")
         ELSE pc' = "account_show" /\ outcome' = outcome
    /\ UNCHANGED <<args, env, line, prompts, vault, file, file0, file_read, calls,
                   secrets, secrets_ids, i, first_run>>

-----------------------------------------------------------------------------
(* azure_login_check and switch_subscription *)

\* Line 11: az account show; a non-zero status raises CalledProcessError.
AccountShow ==
    /\ pc = "account_show"
    /\ \E rc \in {0, 1} :
        /\ Log([op |-> "account show", rc |-> rc])
        /\ pc' = IF rc = 0 THEN "switch" ELSE "login"
    /\ UNCHANGED <<outcome, args, env, subscription_id, vaultname, line, prompts, vault,
                   file, file0, file_read, secrets, secrets_ids, i, first_run>>

\* Mutant: a failed login is reported but the run goes on.
LoginIgnoreFailure ==
    /\ pc = "login"
    /\ \E rc \in {0, 1} :
        /\ Log([op |-> "login", rc |-> rc])
        /\ pc' = "switch"
        /\ outcome' = outcome
    /\ UNCHANGED <<args, env, subscription_id, vaultname, line, prompts, vault,
                   file, file0, file_read, secrets, secrets_ids, i, first_run>>

\* Lines 13-19: one az login; its failure is fatal.
Login ==
    /\ pc = "login"
    /\ \E rc \in {0, 1} :
        /\ Log([op |-> "login", rc |-> rc])
        /\ IF rc = 0 THEN pc' = "switch" /\ outcome' = outcome ELSE Exit("fatal")
    /\ UNCHANGED <<args, env, subscription_id, vaultname, line, prompts, vault,
                   file, file0, file_read, secrets, secrets_ids, i, first_run>>

\* Lines 21-36: az account set when the id is non-empty; its failure is fatal.
SwitchSubscription ==
    /\ pc = "switch"
    /\ IF Truthy(subscription_id)
         THEN \E rc \in {0, 1} :
                /\ Log([op |-> "account set", subscription |-> subscription_id.s, rc |-> rc])
                /\ IF rc = 0 THEN pc' = "confirm" /\ outcome' = outcome ELSE Exit("fatal")
         ELSE pc' = "confirm" /\ UNCHANGED <<outcome, calls>>
    /\ UNCHANGED <<args, env, subscription_id, vaultname, line, prompts, vault,
                   file, file0, file_read, secrets, secrets_ids, i, first_run>>

-----------------------------------------------------------------------------
(* confirm_action, lines 118-121 *)

Whitespace == {" "}

RECURSIVE lstrip(_)
lstrip(s) == IF s # <<>> /\ Head(s) \in Whitespace THEN lstrip(Tail(s)) ELSE s

RECURSIVE rstrip(_)
rstrip(s) ==
    IF s # <<>> /\ s[Len(s)] \in Whitespace THEN rstrip(SubSeq(s, 1, Len(s) - 1)) ELSE s

\* str.strip()
strip(s) == rstrip(lstrip(s))

lower_char(c) ==
    CASE c = "Y" -> "y"
      [] c = "N" -> "n"
      [] c = "E" -> "e"
      [] c = "S" -> "s"
      [] OTHER -> c

\* str.lower()
lower(s) == [k \in DOMAIN s |-> lower_char(s[k])]

\* Mutant: the answer is not lower-cased.
confirm_action_no_lower(typed) == strip(typed) = <<"y">>

\* The value confirm_action returns for the typed line.
confirm_action(typed) == lower(strip(typed)) = <<"y">>

\* main, lines 150-153: ask once; a declination exits with status 0.
ConfirmFrom(L) ==
    /\ pc = "confirm"
    /\ \E typed \in L :
        /\ line' = typed
        /\ prompts' = prompts + 1
        /\ IF confirm_action(typed)
             THEN /\ pc' = IF args.direction = "push" THEN "push" ELSE "pull"
                  /\ outcome' = outcome
             ELSE Exit("cancelled")
    /\ UNCHANGED <<args, env, subscription_id, vaultname, vault, file, file0, file_read,
                   calls, secrets, secrets_ids, i, first_run>>

Confirm == ConfirmFrom(ShortLines)

-----------------------------------------------------------------------------
(* push_secrets, lines 39-66 *)

\* Line 47: the element is not a dict or lacks the name or the value key.
Malformed(secret) ==
    \/ secret.t # "dict"
    \/ "name" \notin DOMAIN secret.d
    \/ "value" \notin DOMAIN secret.d

\* dict.get(key, default)
Get(d, key, default) == IF key \in DOMAIN d THEN d[key] ELSE default

\* Mutant: only the keys are passed.
TagArgsKeysOnly(tags) == [k \in DOMAIN tags.m |-> tags.m[k][1]]

\* Line 55: one "key=value" string per entry of the mapping, in its order.
TagArgs(tags) == [k \in DOMAIN tags.m |-> tags.m[k][1] \o <<"=">> \o tags.m[k][2]]

\* Mutant: a rejected set is not noticed.
RejectedNever(rc) == FALSE

\* Line 62: the remote rejected the set.
Rejected(rc) == rc # 0

SetCall(vn, name, value, tag_args, rc) ==
    [op |-> "set", vault |-> vn, name |-> name, value |-> value,
     tag_args |-> tag_args, rc |-> rc]

RECURSIVE PushFromSkip(_, _)
\* Mutant: a malformed element is skipped instead of ending the run.
PushFromSkip(list, k) ==
    IF k > Len(list)
      THEN Exit("success") /\ UNCHANGED <<calls, i>>
      ELSE LET secret == list[k] IN
        IF Malformed(secret)
          THEN PushFromSkip(list, k + 1)
          ELSE LET tags == Get(secret.d, "tags", JMap(<<>>)) IN
            IF tags.t # "map"
              THEN Exit("crash") /\ UNCHANGED <<calls, i>>
              ELSE \E rc \in {0, 1} :
                     /\ Log(SetCall(vaultname.s, secret.d.name, secret.d.value,
                                    TagArgs(tags), rc))
                     /\ IF Rejected(rc)
                          THEN Exit("fatal") /\ i' = k
                          ELSE IF k = Len(list)
                            THEN Exit("success") /\ i' = k
                            ELSE i' = k + 1 /\ pc' = "push_loop" /\ outcome' = outcome

\* Lines 46-66 from element k of the loaded list on, up to the next remote
\* call: the first element decides. Past the last element push_secrets and
\* main return.
PushFrom(list, k) ==
    IF k > Len(list)
      THEN Exit("success") /\ UNCHANGED <<calls, i>>
      ELSE LET secret == list[k] IN
        IF Malformed(secret)
          THEN Exit("fatal") /\ UNCHANGED <<calls, i>>
          ELSE LET tags == Get(secret.d, "tags", JMap(<<>>)) IN
            IF tags.t # "map"
              THEN \* tags.items() on None raises AttributeError
                   Exit("crash") /\ UNCHANGED <<calls, i>>
              ELSE \E rc \in {0, 1} :
                     /\ Log(SetCall(vaultname.s, secret.d.name, secret.d.value,
                                    TagArgs(tags), rc))
                     /\ IF Rejected(rc)
                          THEN Exit("fatal") /\ i' = k
                          ELSE IF k = Len(list)
                            THEN Exit("success") /\ i' = k
                            ELSE i' = k + 1 /\ pc' = "push_loop" /\ outcome' = outcome

\* Lines 41-44 and the loop up to its first remote call: open() raises when
\* the file is missing.
Push ==
    /\ pc = "push"
    /\ file_read' = TRUE
    /\ IF file.kind = "none"
         THEN Exit("crash") /\ UNCHANGED <<calls, secrets, i>>
         ELSE secrets' = file.recs /\ PushFrom(file.recs, 1)
    /\ UNCHANGED <<args, env, subscription_id, vaultname, line, prompts, vault,
                   file, file0, secrets_ids, first_run>>

\* The loop after a successful set, up to the next remote call.
PushStep ==
    /\ pc = "push_loop"
    /\ PushFrom(secrets, i)
    /\ UNCHANGED <<args, env, subscription_id, vaultname, line, prompts, vault,
                   file, file0, file_read, secrets, secrets_ids, first_run>>

-----------------------------------------------------------------------------
(* pull_secrets, lines 68-116, and the tag parsing of main, line 158 *)

RECURSIVE split(_, _)
\* str.split(sep) for a one-character separator
split(s, sep) ==
    IF \E k \in DOMAIN s : s[k] = sep
      THEN LET k == CHOOSE k \in DOMAIN s : s[k] = sep /\ \A j \in 1..(k - 1) : s[j] # sep
           IN <<SubSeq(s, 1, k - 1)>> \o split(SubSeq(s, k + 1, Len(s)), sep)
      ELSE <<s>>

\* dict[key] = value on an insertion-ordered mapping
Put(m, key, value) ==
    IF \E k \in DOMAIN m : m[k][1] = key
      THEN [k \in DOMAIN m |-> IF m[k][1] = key THEN <<key, value>> ELSE m[k]]
      ELSE Append(m, <<key, value>>)

RECURSIVE dict(_)
\* dict(pairs), every element of pairs having length 2
dict(pairs) ==
    IF pairs = <<>> THEN <<>>
    ELSE LET n == Len(pairs)
         IN Put(dict(SubSeq(pairs, 1, n - 1)), pairs[n][1], pairs[n][2])

\* Line 158: dict() raises ValueError on an item that does not split in two.
TagsParse(tg) == tg.t = "list" /\ \A k \in DOMAIN tg.l : Len(split(tg.l[k], "=")) = 2

tag_dict(tg) ==
    IF tg.t = "list" THEN dict([k \in DOMAIN tg.l |-> split(tg.l[k], "=")]) ELSE <<>>

\* Lines 72-76: the conjuncts  tags.key == 'value'  of the listing query, one
\* per filter entry; none when the filter is empty.
Query(tags) == [k \in DOMAIN tags |-> [key |-> tags[k][1], equals |-> tags[k][2]]]

\* What the remote evaluates the conjunct to on one secret: a secret without
\* tags, or without the key, has no such tag.
Holds(conj, rec) ==
    /\ rec.tags.t = "map"
    /\ \E k \in DOMAIN rec.tags.m :
         rec.tags.m[k][1] = conj.key /\ rec.tags.m[k][2] = conj.equals

\* The remote's answer to the listing call: the identifiers (positions in the
\* vault) of the secrets on which every conjunct holds, in the vault's order.
RemoteList(v, query) ==
    SelectSeq([k \in DOMAIN v |-> k],
              LAMBDA k : \A c \in DOMAIN query : Holds(query[c], v[k]))

\* Line 90: the object the show call prints for a secret.
ShowOutput(rec) == JDict([name |-> rec.name, value |-> rec.value, tags |-> rec.tags])

\* Position of the ']' closing the class that opens at pat[1] = "[", or 0
\* (fnmatch.translate: a leading '!' and a leading ']' do not close it).
ClassEnd(pat) ==
    LET n == Len(pat)
        j1 == IF n >= 2 /\ pat[2] = "!" THEN 3 ELSE 2
        j2 == IF j1 <= n /\ pat[j1] = "]" THEN j1 + 1 ELSE j1
    IN IF \E j \in j2..n : pat[j] = "]"
         THEN CHOOSE j \in j2..n : pat[j] = "]" /\ \A h \in j2..(j - 1) : pat[h] # "]"
         ELSE 0

RECURSIVE fnmatch(_, _)
\* fnmatch.fnmatch on a POSIX host (normcase is the identity) for patterns of
\* '*', '?', '[seq]', '[!seq]' and literal characters; the whole name must match.
fnmatch(name, pat) ==
    IF pat = <<>> THEN name = <<>>
    ELSE LET c == Head(pat) IN
      CASE c = "*" ->
             \/ fnmatch(name, Tail(pat))
             \/ name # <<>> /\ fnmatch(Tail(name), pat)
        [] c = "?" -> name # <<>> /\ fnmatch(Tail(name), Tail(pat))
        [] c = "[" /\ ClassEnd(pat) # 0 ->
             LET j == ClassEnd(pat)
                 neg == pat[2] = "!"
                 stuff == SubSeq(pat, IF neg THEN 3 ELSE 2, j - 1)
             IN /\ name # <<>>
                /\ (Head(name) \in Range(stuff)) # neg
                /\ fnmatch(Tail(name), SubSeq(pat, j + 1, Len(pat)))
        [] OTHER -> name # <<>> /\ Head(name) = c /\ fnmatch(Tail(name), Tail(pat))

\* Mutant: the listing call's status is not checked.
ListFailedNever(rc) == FALSE

\* Line 80: the listing call failed.
ListFailed(rc) == rc # 0

\* Line 94: the show call succeeded.
Fetched(rc) == rc = 0

\* Mutant: the name pattern is ignored.
IncludedAlways(secret, pattern) == TRUE

\* Lines 97-105: a record is kept when no pattern is given (None or "") or
\* its name matches the pattern.
Included(secret, pattern) ==
    IF Truthy(pattern) THEN fnmatch(secret.d.name, pattern.s) ELSE TRUE

\* Lines 113-116: overwrite the file with the accumulated list; pull_secrets
\* and main return.
WriteFile(list) ==
    /\ file' = JsonFile(list)
    /\ Exit("success")

\* Main line 158, then lines 70-86 and, for an empty listing, lines 113-116.
Pull ==
    /\ pc = "pull"
    /\ IF args.tags.t = "list" /\ ~TagsParse(args.tags)
         THEN Exit("crash") /\ UNCHANGED <<calls, secrets_ids, file, i>>
         ELSE \E rc \in {0, 1} :
           LET query == Query(tag_dict(args.tags))
               ids == RemoteList(vault, query)
           IN /\ Log([op |-> "list", vault |-> vaultname.s, query |-> query, rc |-> rc])
              /\ IF ListFailed(rc)
                   THEN Exit("fatal") /\ UNCHANGED <<secrets_ids, file, i>>
                   ELSE /\ secrets_ids' = ids
                        /\ i' = 1
                        /\ IF ids = <<>>
                             THEN WriteFile(<<>>)
                             ELSE pc' = "pull_loop" /\ UNCHANGED <<outcome, file>>
    /\ secrets' = <<>>
    /\ UNCHANGED <<args, env, subscription_id, vaultname, line, prompts, vault,
                   file0, file_read, first_run>>

\* Mutant: a failed show ends the run as a failed set does in push.
PullStepAbort ==
    /\ pc = "pull_loop"
    /\ \E rc \in {0, 1} :
         LET secret_id == secrets_ids[i]
             secret == ShowOutput(vault[secret_id])
             acc == IF Fetched(rc) /\ Included(secret, args.name)
                      THEN Append(secrets, secret)
                      ELSE secrets
         IN /\ Log([op |-> "show", id |-> secret_id, rc |-> rc])
            /\ secrets' = acc
            /\ IF ~Fetched(rc)
                 THEN Exit("fatal") /\ UNCHANGED <<i, file>>
                 ELSE IF i = Len(secrets_ids)
                   THEN WriteFile(acc) /\ i' = i
                   ELSE i' = i + 1 /\ UNCHANGED <<pc, outcome, file>>
    /\ UNCHANGED <<args, env, subscription_id, vaultname, line, prompts, vault,
                   file0, file_read, secrets_ids, first_run>>

\* One iteration of lines 88-111 and, after the last one, lines 113-116.
PullStep ==
    /\ pc = "pull_loop"
    /\ \E rc \in {0, 1} :
         LET secret_id == secrets_ids[i]
             secret == ShowOutput(vault[secret_id])
             acc == IF Fetched(rc) /\ Included(secret, args.name)
                      THEN Append(secrets, secret)
                      ELSE secrets
         IN /\ Log([op |-> "show", id |-> secret_id, rc |-> rc])
            /\ secrets' = acc
            /\ IF i = Len(secrets_ids)
                 THEN WriteFile(acc) /\ i' = i
                 ELSE i' = i + 1 /\ UNCHANGED <<pc, outcome, file>>
    /\ UNCHANGED <<args, env, subscription_id, vaultname, line, prompts, vault,
                   file0, file_read, secrets_ids, first_run>>

-----------------------------------------------------------------------------
(* A second invocation: after a pull that ended in success, the same file  *)
(* is pushed back with the same subscription and vault settings.           *)

PushBack ==
    /\ pc = "exit"
    /\ outcome = "success"
    /\ args.direction = "pull"
    /\ first_run = None
    /\ first_run' = [t |-> "pull", args |-> args, calls |-> calls, written |-> secrets]
    /\ args' = [args EXCEPT !.direction = "push", !.tags = None, !.name = None]
    /\ pc' = "start"
    /\ outcome' = "running"
    /\ subscription_id' = None
    /\ vaultname' = None
    /\ line' = <<>>
    /\ prompts' = 0
    /\ file0' = file
    /\ file_read' = FALSE
    /\ calls' = <<>>
    /\ secrets' = <<>>
    /\ secrets_ids' = <<>>
    /\ i' = 1
    /\ UNCHANGED <<env, vault, file>>

-----------------------------------------------------------------------------

Next ==
    \/ ParseArgs
    \/ AccountShow
    \/ Login
    \/ SwitchSubscription
    \/ Confirm
    \/ Push
    \/ PushStep
    \/ Pull
    \/ PullStep
    \/ PushBack

Spec == Init /\ [][Next]_vars

-----------------------------------------------------------------------------
(* The confirmation prompt on its own: the session is established, the     *)
(* subscription is selected, and any line up to MaxLine characters is      *)
(* typed.                                                                  *)

InitConfirm ==
    /\ pc = "confirm"
    /\ outcome = "running"
    /\ \E dir \in {"push", "pull"} : args = Args(dir, <<sub, None, kv, None>>, None, None)
    /\ env = Env(<<sub, None, kv, None>>)
    /\ subscription_id = sub
    /\ vaultname = kv
    /\ line = <<>>
    /\ prompts = 0
    /\ vault = <<>>
    /\ file = NoFile
    /\ file0 = file
    /\ file_read = FALSE
    /\ calls = << [op |-> "account show", rc |-> 0],
                  [op |-> "account set", subscription |-> sub.s, rc |-> 0] >>
    /\ secrets = <<>>
    /\ secrets_ids = <<>>
    /\ i = 1
    /\ first_run = None

ConfirmAny == ConfirmFrom(AllLines)

SpecConfirm == InitConfirm /\ [][ConfirmAny]_vars

-----------------------------------------------------------------------------
(* Properties *)

Done == pc = "exit"

SetCalls == SelectSeq(calls, LAMBDA c : c.op = "set")
ShowCalls == SelectSeq(calls, LAMBDA c : c.op = "show")
ListCalls == SelectSeq(calls, LAMBDA c : c.op = "list")
VaultCalls == SelectSeq(calls, LAMBDA c : c.op \in {"list", "show", "set"})

\* The run is a push that has loaded the transfer file.
PushLoaded == args.direction = "push" /\ file_read /\ file.kind = "json"

\* The element lacks the name or the value field (or is no object at all).
LacksField(r) == r.t # "dict" \/ ~({"name", "value"} \subseteq DOMAIN r.d)

\* The element's tags are absent or a mapping.
TagsUsable(r) == "tags" \notin DOMAIN r.d \/ r.d.tags.t = "map"

\* The tag pairs a record is expected to be sent with: none without tags.
ExpectedPairs(r) ==
    IF "tags" \in DOMAIN r.d /\ r.d.tags.t = "map"
      THEN [k \in DOMAIN r.d.tags.m |-> r.d.tags.m[k][1] \o <<"=">> \o r.d.tags.m[k][2]]
      ELSE <<>>

\* Set call c carries record r.
Carries(c, r) ==
    /\ c.name = r.d.name
    /\ c.value = r.d.value
    /\ c.tag_args = ExpectedPairs(r)

\* Record k of the list ends the run: it cannot be pushed (a required field is
\* missing, or its tags are not a mapping) or the remote rejected its set.
StopsAt(list, S, k) ==
    \/ LacksField(list[k])
    \/ ~TagsUsable(list[k])
    \/ k <= Len(S) /\ S[k].rc # 0

ValidRecord(r) ==
    /\ ~LacksField(r)
    /\ r.d.name # <<>>
    /\ r.d.value # <<>>
    /\ TagsUsable(r)

\* C2: a push of a valid file whose set calls all succeed ends in success
\* having issued exactly one set call per record, in file order, each with
\* the record's name, value and one key=value pair per tag (none when the
\* record has no tags), against the resolved vault.
C2_OneSetPerRecord ==
    (/\ PushLoaded
     /\ Done
     /\ \A k \in DOMAIN file.recs : ValidRecord(file.recs[k])
     /\ \A j \in DOMAIN SetCalls : SetCalls[j].rc = 0)
    => /\ outcome = "success"
       /\ exit_status = 0
       /\ Len(SetCalls) = Len(file.recs)
       /\ \A j \in DOMAIN SetCalls :
            Carries(SetCalls[j], file.recs[j]) /\ SetCalls[j].vault = vaultname.s

\* A successful push of a record with two tags and a record without tags.
C2_Witness ==
    /\ PushLoaded
    /\ Done
    /\ outcome = "success"
    /\ Len(file.recs) = 2
    /\ \A k \in DOMAIN file.recs : ValidRecord(file.recs[k])
    /\ Len(SetCalls) = 2
    /\ \E j \in DOMAIN SetCalls : Len(SetCalls[j].tag_args) = 2
    /\ \E j \in DOMAIN SetCalls : SetCalls[j].tag_args = <<>>

\* Malformed as the specification has it: name or value absent or empty.
AbsentOrEmpty(r) == LacksField(r) \/ r.d.name = <<>> \/ r.d.value = <<>>

PullSucceeded == args.direction = "pull" /\ Done /\ outcome = "success"

\* The secret carries every entry of the tag filter.
MatchesFilter(rec, filter) ==
    \A k \in DOMAIN filter :
      rec.tags.t = "map" /\ \E j \in DOMAIN rec.tags.m : rec.tags.m[j] = filter[k]

\* A show call for the identifier succeeded.
FetchedOk(id) == \E c \in DOMAIN ShowCalls : ShowCalls[c].id = id /\ ShowCalls[c].rc = 0

\* The name passes the pattern; a pattern is supplied when --name is a
\* non-empty string.
NameOk(rec) == Truthy(args.name) => fnmatch(rec.name, args.name.s)

RecordsOf(ids) == [k \in DOMAIN ids |-> ShowOutput(vault[ids[k]])]

\* C4: a pull that succeeds writes exactly the vault's secrets that carry
\* every entry of the tag filter, were fetched successfully and pass the name
\* pattern, in the vault's listing order, each once.
C4_PullWritesMatchingSubset ==
    PullSucceeded =>
      LET filter == tag_dict(args.tags)
          keep == SelectSeq([k \in DOMAIN vault |-> k],
                            LAMBDA k : /\ MatchesFilter(vault[k], filter)
                                       /\ FetchedOk(k)
                                       /\ NameOk(vault[k]))
      IN /\ file = JsonFile(RecordsOf(keep))
         /\ \A j, k \in DOMAIN file.recs : file.recs[j] = file.recs[k] => j = k

\* Two secrets pass the tag filter and are fetched; the pattern keeps one.
C4_Witness ==
    /\ PullSucceeded
    /\ Len(vault) = 2
    /\ tag_dict(args.tags) # <<>>
    /\ Truthy(args.name)
    /\ Len(ShowCalls) = 2
    /\ \A c \in DOMAIN ShowCalls : ShowCalls[c].rc = 0
    /\ Len(file.recs) = 1

\* The listing call of this pull succeeded.
ListedOk == args.direction = "pull" /\ ListCalls # <<>> /\ ListCalls[1].rc = 0

\* C5: after a successful listing the identifiers are fetched one by one in
\* the listed order whatever the earlier fetches returned; the run ends only
\* after the last one, in success, and the file then holds the records of
\* the successful fetches that pass the name pattern.
C5_PullContinuesPastFailure ==
    ListedOk =>
      /\ Len(ShowCalls) <= Len(secrets_ids)
      /\ \A j \in DOMAIN ShowCalls : ShowCalls[j].id = secrets_ids[j]
      /\ ~Done => pc = "pull_loop" /\ Len(ShowCalls) < Len(secrets_ids)
      /\ Done =>
           /\ outcome = "success"
           /\ exit_status = 0
           /\ Len(ShowCalls) = Len(secrets_ids)
           /\ LET ok == SelectSeq(ShowCalls,
                                  LAMBDA c : c.rc = 0 /\ NameOk(vault[c.id]))
              IN file = JsonFile([k \in DOMAIN ok |-> ShowOutput(vault[ok[k].id])])

\* The first fetch failed, the second was still made and its record written.
C5_Witness ==
    /\ ListedOk
    /\ Done
    /\ Len(ShowCalls) = 2
    /\ ShowCalls[1].rc # 0
    /\ ShowCalls[2].rc = 0
    /\ Len(file.recs) = 1

\* C6: when the listing call fails the run ends with exit status 1, no show
\* call is made and the transfer file is as it was.
C6_ListFailureWritesNothing ==
    (args.direction = "pull" /\ ListCalls # <<>> /\ ListCalls[1].rc # 0) =>
      /\ Done
      /\ exit_status = 1
      /\ Len(ListCalls) = 1
      /\ ShowCalls = <<>>
      /\ file = file0

\* The listing of a non-empty vault failed while a file was on disk.
C6_Witness ==
    /\ args.direction = "pull"
    /\ ListCalls # <<>>
    /\ ListCalls[1].rc # 0
    /\ vault # <<>>
    /\ file0.kind = "json"
    /\ Done

\* The prompt was answered and confirm_action returned true.
ReturnedTrue == prompts = 1 /\ pc \in {"push", "pull"}

yes == <<"y", "e", "s">>

\* C7 as stated: true only for the line y; Y, yes, the empty line and n give
\* false.
C7_OnlyLowercaseY ==
    prompts = 1 =>
      /\ ReturnedTrue => line = <<"y">>
      /\ line \in {<<"Y">>, yes, <<>>, <<"n">>} => ~ReturnedTrue

\* The line is one y or Y with nothing but blanks around it.
IsYes(typed) ==
    \E k \in DOMAIN typed :
      typed[k] \in {"y", "Y"} /\ \A j \in DOMAIN typed \ {k} : typed[j] = " "

\* C7 as amended: confirm_action returns true exactly when the line, trimmed
\* and lower-cased, is y: y and Y give true; yes, the empty line and n give
\* false.
C7_YesAfterTrimAndLower ==
    prompts = 1 =>
      /\ ReturnedTrue <=> IsYes(line)
      /\ line \in {<<"y">>, <<"Y">>} => ReturnedTrue
      /\ line \in {yes, <<>>, <<"n">>} => ~ReturnedTrue

\* An upper-case Y after a blank was accepted.
C7_Witness == ReturnedTrue /\ line = <<" ", "Y">>

\* Positions in calls of the calls that satisfy P.
Where(P(_)) == {k \in DOMAIN calls : P(calls[k])}

SessionOk(c) == c.op \in {"account show", "login"} /\ c.rc = 0
SwitchOk(c) == c.op = "account set" /\ c.rc = 0
VaultOp(c) == c.op \in {"list", "show", "set"}
IsLogin(c) == c.op = "login"
ShowFailed(c) == c.op = "account show" /\ c.rc # 0

\* C8: authenticate, select the subscription, confirm, then push or pull.
\* A vault operation or an access to the transfer file happens only after a
\* successful session check or login, then a successful subscription
\* switch, then a confirmation that returned true. Login is tried at most
\* once, after a failed session check. The prompt is asked at most once,
\* after the switch; a declination ends the run with exit status 0, without
\* any vault operation and with the file untouched.
C8_LinearOrder ==
    LET acted == Where(VaultOp) # {} \/ file_read \/ file # file0
        prepared == \E a \in Where(SessionOk), b \in Where(SwitchOk) :
                       a < b /\ \A v \in Where(VaultOp) : b < v
    IN /\ prompts <= 1
       /\ Cardinality(Where(IsLogin)) <= 1
       /\ \A l \in Where(IsLogin) : l = 2 /\ ShowFailed(calls[1])
       /\ prompts = 1 => prepared
       /\ acted => prompts = 1 /\ confirm_action(line) /\ prepared
       /\ (prompts = 1 /\ ~confirm_action(line)) =>
            /\ Done
            /\ outcome = "cancelled"
            /\ exit_status = 0
            /\ Where(VaultOp) = {}
            /\ ~file_read
            /\ file = file0

\* A pull that logged in first, then fetched and wrote the file.
C8_Witness ==
    /\ Done
    /\ outcome = "success"
    /\ args.direction = "pull"
    /\ Where(IsLogin) # {}
    /\ Cardinality(Where(VaultOp)) >= 2
    /\ file # file0

\* Neither the flag nor the environment variable is set.
NotGiven(flag, envv) == flag.t = "none" /\ envv.t = "none"

\* C9: with the subscription id or the vault name missing, main ends with
\* exit status 1 in its first step: no remote call, no prompt, no file access.
C9_MissingConfigIsFatal ==
    (/\ pc # "start"
     /\ \/ NotGiven(args.subscription, env.AZURE_SUBSCRIPTION_ID)
        \/ NotGiven(args.vaultname, env.AZURE_KEYVAULT_NAME))
    => /\ Done
       /\ exit_status = 1
       /\ calls = <<>>
       /\ prompts = 0
       /\ ~file_read
       /\ file = file0

\* The subscription is given and the vault name is not.
C9_Witness ==
    /\ Done
    /\ Truthy(args.subscription)
    /\ NotGiven(args.vaultname, env.AZURE_KEYVAULT_NAME)
    /\ exit_status = 1

\* The tag pairs a secret of the vault is expected to be set with.
VaultPairs(rec) ==
    IF rec.tags.t = "map"
      THEN [k \in DOMAIN rec.tags.m |-> rec.tags.m[k][1] \o <<"=">> \o rec.tags.m[k][2]]
      ELSE <<>>

\* C10: an unfiltered pull whose fetches all succeed, pushed back to a vault
\* that accepts every set, issues one set call per secret of the vault, in
\* the pulled order, with its name, value and tags, and ends in success.
C10_RoundTrip ==
    (/\ first_run.t = "pull"
     /\ first_run.args.tags.t = "none"
     /\ first_run.args.name.t = "none"
     /\ \A k \in DOMAIN first_run.calls :
          first_run.calls[k].op = "show" => first_run.calls[k].rc = 0
     /\ args.direction = "push"
     /\ file_read
     /\ Done
     /\ \A j \in DOMAIN SetCalls : SetCalls[j].rc = 0)
    => /\ outcome = "success"
       /\ Len(SetCalls) = Len(vault)
       /\ \A j \in DOMAIN SetCalls :
            /\ SetCalls[j].name = vault[j].name
            /\ SetCalls[j].value = vault[j].value
            /\ SetCalls[j].tag_args = VaultPairs(vault[j])

====
